---- MODULE Spec2Model ----
(***************************************************************************)
(* Lead scorer (src/lead_scorer.py): score_lead turns one model response   *)
(* into a result record, score_multiple_leads scores a list of inquiries   *)
(* sequentially, filters and sorts the successful records and computes the *)
(* analytics.                                                              *)
(*                                                                         *)
(* Texts are sequences.  An inquiry is a sequence of characters.  A model  *)
(* response is a sequence of lexical tokens; every token is a record       *)
(* [c, v]: c is the token's text and v the JSON value it carries.          *)
(***************************************************************************)
EXTENDS Integers, Sequences, FiniteSets, TLC

VARIABLES client, inquiry_list, model_out, results, calls, clock, pc,
          successful_leads, analytics

vars == <<client, inquiry_list, model_out, results, calls, clock, pc,
          successful_leads, analytics>>

----------------------------------------------------------------------------
(* Bounds of the model *)

\* longest inquiry list of a batch run
MaxLeads == 3
\* scores a response may carry are 0..MaxScore (0 is below the 1-10 scale)
MaxScore == 7
\* longest response, in tokens, of the single-inquiry runs
MaxRespLen == 3
\* inquiry lengths of the single-inquiry runs: 0..MaxShort and
\* TruncLen-1..TruncLen+MaxOver
MaxShort == 1
MaxOver == 1

(* Program constants *)

\* inquiry_text[:150], len(inquiry_text) > 150
TruncLen == 150
\* r.get("score", 0) >= 7
HotMin == 7
\* 4 <= r.get("score", 0) < 7
WarmMin == 4

----------------------------------------------------------------------------
(* JSON values, as json.loads returns them *)

JInt(n) == [type |-> "int", val |-> n]
JNull == [type |-> "null", val |-> 0]
JStr == [type |-> "str", val |-> 0]
\* the object has no "score" key
Absent == [type |-> "absent", val |-> 0]

ScoreVals == {JInt(n) : n \in 0..MaxScore} \cup {JNull, JStr, Absent}

(* Tokens of a response text *)

Plain(c) == [c |-> c, v |-> Absent]
\* whitespace
WS == Plain(" ")
\* the three backticks of a code fence
FENCE == Plain("[3 backticks]")
\* the word json, as in the language tag of a json fence
JSONTAG == Plain("json")
\* any other word: another language tag, prose
WORD == Plain("python")
\* a JSON scalar: well-formed JSON that is not an object
SCALAR == Plain("5")
\* the end of a JSON object: the quote closing its reasoning string, the
\* fields after it and the closing brace
CLOSE == Plain("}")
\* the start of a JSON object, from the opening brace to the quote opening
\* its reasoning string, with the score it declares (none when v = Absent)
OPEN(v) == [c |-> "{", v |-> v]

IsOpen(t) == t.c = "{"

----------------------------------------------------------------------------
(* str methods used by score_lead *)

RECURSIVE lstrip(_)
lstrip(s) == IF s # <<>> /\ Head(s) = WS THEN lstrip(Tail(s)) ELSE s

RECURSIVE rstrip(_)
rstrip(s) ==
    IF s # <<>> /\ s[Len(s)] = WS THEN rstrip(SubSeq(s, 1, Len(s) - 1)) ELSE s

\* str.strip()
strip(s) == rstrip(lstrip(s))

\* str.find(sep) + 1: the leftmost position where sep occurs in s, 0 if none
find(s, sep) ==
    LET at == {i \in 1..(Len(s) - Len(sep) + 1) :
                  SubSeq(s, i, i + Len(sep) - 1) = sep}
    IN  IF at = {} THEN 0 ELSE CHOOSE i \in at : \A j \in at : i <= j

\* sep in s
contains(s, sep) == find(s, sep) # 0

\* s.split(sep): the pieces of s between the occurrences of sep
RECURSIVE split(_, _)
split(s, sep) ==
    LET i == find(s, sep)
    IN  IF i = 0 THEN <<s>>
        ELSE <<SubSeq(s, 1, i - 1)>>
             \o split(SubSeq(s, i + Len(sep), Len(s)), sep)

\* inquiry_text[:n]
prefix(s, n) == SubSeq(s, 1, IF Len(s) < n THEN Len(s) ELSE n)

ELLIPSIS == <<".", ".", ".">>

----------------------------------------------------------------------------
(* score_lead *)

\* "Clean up markdown if present": response_text after lines 69-74
cleanup(response_text) ==
    IF contains(response_text, <<FENCE, JSONTAG>>)
    THEN strip(split(split(response_text, <<FENCE, JSONTAG>>)[2], <<FENCE>>)[1])
    ELSE IF contains(response_text, <<FENCE>>)
    THEN strip(split(split(response_text, <<FENCE>>)[2], <<FENCE>>)[1])
    ELSE response_text

\* the text is one JSON object: its opening, a string body without quotes,
\* its closing
IsObjectText(t) ==
    /\ Len(t) >= 2
    /\ IsOpen(t[1])
    /\ t[Len(t)] = CLOSE
    /\ \A i \in 2..(Len(t) - 1) : ~IsOpen(t[i]) /\ t[i] # CLOSE

\* json.loads(text): kind "object" with the parsed dict, kind "scalar" for
\* well-formed JSON that is no object, kind "error" for JSONDecodeError,
\* whose message is never empty (one message stands for all of them)
json_loads(text) ==
    LET t == strip(text)
    IN  IF IsObjectText(t)
        THEN [kind |-> "object",
              dict |-> IF t[1].v = Absent
                       THEN [reasoning |-> SubSeq(t, 2, Len(t) - 1)]
                       ELSE [score |-> t[1].v,
                             reasoning |-> SubSeq(t, 2, Len(t) - 1)],
              msg |-> ""]
        ELSE IF t = <<SCALAR>>
        THEN [kind |-> "scalar", dict |-> <<>>, msg |-> ""]
        ELSE [kind |-> "error", dict |-> <<>>, msg |-> "Expecting value"]

\* d with d[k] = x, as the assignment result[k] = x leaves the dict
put(d, k, x) == [f \in DOMAIN d \cup {k} |-> IF f = k THEN x ELSE d[f]]

\* the cut made from 150 characters on
truncated_from(inquiry_text) ==
    IF Len(inquiry_text) >= TruncLen
    THEN prefix(inquiry_text, TruncLen) \o ELLIPSIS
    ELSE inquiry_text

\* inquiry_text[:150] + "..." if len(inquiry_text) > 150 else inquiry_text
truncated(inquiry_text) ==
    IF Len(inquiry_text) > TruncLen
    THEN prefix(inquiry_text, TruncLen) \o ELLIPSIS
    ELSE inquiry_text

\* lines 78-83: the parsed dict with status, original_inquiry and timestamp
enrich(result, inquiry_text, now) ==
    put(put(put(result, "status", "success"),
            "original_inquiry", truncated(inquiry_text)),
        "timestamp", now)

\* the failure record without its score key
decode_failure_no_score(msg, raw) ==
    [status |-> "failed",
     error |-> <<"JSON parsing error: ", msg>>, raw_response |-> raw]

\* except json.JSONDecodeError (lines 85-91)
decode_failure(msg, raw) ==
    [score |-> JNull, status |-> "failed",
     error |-> <<"JSON parsing error: ", msg>>, raw_response |-> raw]

\* except Exception (lines 93-99)
generic_failure(msg, inquiry_text) ==
    [score |-> JNull, status |-> "failed", error |-> <<msg>>,
     original_inquiry |-> prefix(inquiry_text, TruncLen) \o ELLIPSIS]

\* What client.messages.create does for one call: it returns a text
\* (kind "text"), raises an error with message msg (kind "error": network,
\* API, auth, an empty content list), or raises a JSONDecodeError of its own
\* (kind "decode_error") before response_text is bound.
Text(t) == [kind |-> "text", text |-> t, msg |-> ""]
Raise(m) == [kind |-> "error", text |-> <<>>, msg |-> m]
RaiseDecode == [kind |-> "decode_error", text |-> <<>>, msg |-> "Expecting value"]

\* score_lead(inquiry_text) when the model call ends as out and
\* datetime.now() reads now
score_lead(inquiry_text, out, now) ==
    IF out.kind = "error" THEN generic_failure(out.msg, inquiry_text)
    ELSE IF out.kind = "decode_error"
    THEN decode_failure(out.msg, <<Plain("No response")>>)
    ELSE LET response_text == cleanup(strip(out.text))
             parsed == json_loads(response_text)
         IN  IF parsed.kind = "error"
             THEN decode_failure(parsed.msg, response_text)
             ELSE IF parsed.kind = "scalar"
             THEN generic_failure("object does not support item assignment",
                                  inquiry_text)
             ELSE enrich(parsed.dict, inquiry_text, now)

----------------------------------------------------------------------------
(* list.sort(key=lambda x: x.get("score", 0), reverse=True) *)

\* x.get("score", 0)
score_of(x) == IF "score" \in DOMAIN x THEN x.score ELSE JInt(0)

\* a < b and a >= b are defined between two ints and between two strs; any
\* other pair (None on either side, a str and an int) raises TypeError
comparable(a, b) ==
    \/ a.type = "int" /\ b.type = "int"
    \/ a.type = "str" /\ b.type = "str"

\* a < b, for comparable a and b
lt(a, b) == a.val < b.val

reversed(s) == [i \in 1..Len(s) |-> s[Len(s) + 1 - i]]

\* the sort compares every element with another one and raises TypeError
\* when two of the scores it compares do not compare: with more than one
\* element it raises unless all scores are ints or all are strs
sort_raises(s) ==
    \E i, j \in 1..Len(s) :
        i # j /\ ~comparable(score_of(s[i]), score_of(s[j]))

\* the place of s[i] in the stable ascending order: after the elements with
\* a smaller score and after the earlier elements with an equal score
rank(s, i) ==
    1 + Cardinality({j \in 1..Len(s) :
            \/ lt(score_of(s[j]), score_of(s[i]))
            \/ ~lt(score_of(s[i]), score_of(s[j])) /\ j < i})

\* the stable ascending sort list.sort runs
sort_ascending(s) ==
    IF sort_raises(s) THEN [raised |-> TRUE, list |-> s]
    ELSE [raised |-> FALSE,
          list |-> [k \in 1..Len(s) |->
                       s[CHOOSE i \in 1..Len(s) : rank(s, i) = k]]]

\* the ascending sort, reversed: equal keys end in reverse order
sort_then_reverse(s) ==
    LET r == sort_ascending(s)
    IN  [raised |-> r.raised, list |-> reversed(r.list)]

\* reverse=True: the list is reversed, sorted ascending and reversed again,
\* which keeps equal keys in their original order
sort_reverse(s) ==
    LET r == sort_ascending(reversed(s))
    IN  [raised |-> r.raised, list |-> reversed(r.list)]

----------------------------------------------------------------------------
(* the analytics of score_multiple_leads *)

is_success(r) == r.status = "success"
is_hot(r) == score_of(r).val >= HotMin
is_warm_above(r) == WarmMin < score_of(r).val /\ score_of(r).val < HotMin
is_warm(r) == WarmMin <= score_of(r).val /\ score_of(r).val < HotMin
is_cold(r) == score_of(r).val < WarmMin

RECURSIVE sum_scores(_)
sum_scores(s) ==
    IF s = <<>> THEN 0 ELSE score_of(Head(s)).val + sum_scores(Tail(s))

\* a comparison of a score with 7 or 4 raises TypeError unless it is a number
analytics_raises(leads) ==
    \E i \in 1..Len(leads) : score_of(leads[i]).type # "int"

\* lines 128-135; average_score is the fraction <<sum, count>>
compute_analytics(all, leads) ==
    [total_leads |-> Len(all),
     scored_successfully |-> Len(leads),
     hot_leads_count |-> Len(SelectSeq(leads, is_hot)),
     warm_leads_count |-> Len(SelectSeq(leads, is_warm)),
     cold_leads_count |-> Len(SelectSeq(leads, is_cold)),
     average_score |-> IF leads # <<>> THEN <<sum_scores(leads), Len(leads)>>
                       ELSE <<0, 1>>]

----------------------------------------------------------------------------
(* Inputs *)

Glyphs == <<"a", "b", "c">>

\* an inquiry text of n characters; k varies the characters
inquiry(k, n) == [j \in 1..n |-> Glyphs[((j + k) % Len(Glyphs)) + 1]]

\* the lengths of the six sample inquiries of the harness
test_lead_lengths == <<306, 45, 206, 217, 191, 60>>

test_leads == [k \in 1..Len(test_lead_lengths) |-> inquiry(k, test_lead_lengths[k])]

\* inquiry lists of the batch runs: the first n sample inquiries, and n
\* copies of the first one
BatchLists ==
    {SubSeq(test_leads, 1, n) : n \in 0..MaxLeads}
    \cup {[k \in 1..n |-> test_leads[1]] : n \in 0..MaxLeads}

\* what the model call does per inquiry in the batch runs: a JSON object with
\* any score, a text that is no JSON, an error
BatchOutcomes ==
    {Text(<<OPEN(v), CLOSE>>) : v \in ScoreVals}
    \cup {Text(<<WORD>>), Raise("Connection error.")}

SeqsUpTo(S, n) == UNION {[1..m -> S] : m \in 0..n}

Alphabet == {WS, FENCE, JSONTAG, WORD, SCALAR, CLOSE, OPEN(JInt(MaxScore)), OPEN(Absent)}

\* a body inside a code fence, with each language tag and with none
fenced(body) ==
    {<<FENCE>> \o tag \o pad \o body \o pad \o <<FENCE>> :
        tag \in {<<>>, <<JSONTAG>>, <<WORD>>}, pad \in {<<>>, <<WS>>}}

\* response texts of the single-inquiry runs
Responses ==
    SeqsUpTo(Alphabet, MaxRespLen)
    \cup UNION {fenced(body) : body \in SeqsUpTo(Alphabet, MaxRespLen)}

LeadOutcomes ==
    {Text(t) : t \in Responses} \cup {Raise("Connection error."), Raise(""), RaiseDecode}

LeadInquiries ==
    {inquiry(0, n) : n \in (0..MaxShort) \cup ((TruncLen - 1)..(TruncLen + MaxOver))}

\* what the model call does per inquiry in the fair runs: an object with a
\* score, one with a null score, a text that is no JSON, an error
FairOutcomes ==
    {Text(<<OPEN(JInt(HotMin)), CLOSE>>), Text(<<OPEN(JNull), CLOSE>>),
     Text(<<WORD>>), Raise("Connection error.")}

\* inquiry lists of the fair runs: n short inquiries
FairLists == {[k \in 1..n |-> inquiry(k, k)] : n \in 0..MaxLeads}

\* client.messages.create(...): the ways a call of the client may end. The
\* client is a stub of the model, one per kind of run.
create(c) ==
    IF c = "batch stub" THEN BatchOutcomes
    ELSE IF c = "lead stub" THEN LeadOutcomes
    ELSE FairOutcomes

----------------------------------------------------------------------------
(* score_multiple_leads as a state machine *)

Start ==
    /\ model_out = <<>>
    /\ results = <<>>
    /\ calls = <<>>
    /\ clock = 0
    /\ pc = "scoring"
    /\ successful_leads = <<>>
    /\ analytics = <<>>

\* a batch run over a list of inquiries
Init ==
    /\ client = "batch stub"
    /\ inquiry_list \in BatchLists
    /\ Start

\* a run over one inquiry, with every response text
LeadInit ==
    /\ client = "lead stub"
    /\ inquiry_list \in {<<q>> : q \in LeadInquiries}
    /\ Start

\* a batch run over short inquiries
FairInit ==
    /\ client = "fair stub"
    /\ inquiry_list \in FairLists
    /\ Start

\* the loop calling the model again for an inquiry whose record is a failure
ScoreNextRetry ==
    /\ pc = "scoring"
    /\ Len(results) < Len(inquiry_list)
    /\ \E out \in create(client) :
          LET i == Len(results) + 1
              r == score_lead(inquiry_list[i], out, clock)
          IN  /\ calls' = Append(calls, i)
              /\ IF r.status = "failed" /\ Len(calls) < i
                 THEN UNCHANGED <<results, model_out>>
                 ELSE /\ results' = Append(results, r)
                      /\ model_out' = Append(model_out, out)
    /\ clock' = clock + 1
    /\ UNCHANGED <<client, inquiry_list, pc, successful_leads, analytics>>

\* one iteration of the loop of lines 117-121: one call of score_lead, which
\* makes one model call, ending as out, and the append of its record. calls
\* logs the inquiry each model call was made for, model_out how it ended.
ScoreNext ==
    /\ pc = "scoring"
    /\ Len(results) < Len(inquiry_list)
    /\ \E out \in create(client) :
          LET i == Len(results) + 1
          IN  /\ calls' = Append(calls, i)
              /\ model_out' = Append(model_out, out)
              /\ results' = Append(results,
                                   score_lead(inquiry_list[i], out, clock))
    /\ clock' = clock + 1
    /\ UNCHANGED <<client, inquiry_list, pc, successful_leads, analytics>>

\* the sort done on the list of all results itself
FilterSortInPlace ==
    /\ pc = "scoring"
    /\ Len(results) = Len(inquiry_list)
    /\ LET sorted == sort_reverse(SelectSeq(results, is_success))
       IN  IF sorted.raised
           THEN pc' = "raised" /\ UNCHANGED <<successful_leads, results>>
           ELSE /\ pc' = "analytics"
                /\ successful_leads' = sorted.list
                /\ results' = sorted.list
    /\ UNCHANGED <<client, inquiry_list, model_out, calls, clock, analytics>>

\* lines 124-125, after the loop: the successful records, in a new list,
\* sorted; a TypeError of the sort leaves score_multiple_leads
FilterSort ==
    /\ pc = "scoring"
    /\ Len(results) = Len(inquiry_list)
    /\ LET sorted == sort_reverse(SelectSeq(results, is_success))
       IN  IF sorted.raised
           THEN pc' = "raised" /\ UNCHANGED successful_leads
           ELSE pc' = "analytics" /\ successful_leads' = sorted.list
    /\ UNCHANGED <<client, inquiry_list, model_out, results, calls, clock,
                   analytics>>

\* lines 128-141: the analytics and the return; a TypeError of a band
\* comparison leaves score_multiple_leads
Analytics ==
    /\ pc = "analytics"
    /\ IF analytics_raises(successful_leads)
       THEN pc' = "raised" /\ UNCHANGED analytics
       ELSE /\ pc' = "done"
            /\ analytics' = compute_analytics(results, successful_leads)
    /\ UNCHANGED <<client, inquiry_list, model_out, results, calls, clock,
                   successful_leads>>

Next == ScoreNext \/ FilterSort \/ Analytics

Spec == Init /\ [][Next]_vars

LeadSpec == LeadInit /\ [][Next]_vars

\* every call of the loop returns: the batch run keeps making steps
FairSpec == FairInit /\ [][Next]_vars /\ WF_vars(Next)

----------------------------------------------------------------------------
(* Properties *)

\* the score a record sorts and counts by: a missing score counts as 0
RefScore(r) == IF "score" \in DOMAIN r THEN r.score.val ELSE 0

\* the positions of all_results that hold a successful record
Successful == {i \in 1..Len(results) : results[i].status = "success"}

\* p lists the successful positions by score descending, equal scores in
\* input order
IsStableDescending(p) ==
    /\ {p[k] : k \in DOMAIN p} = Successful
    /\ \A a, b \in DOMAIN p :
          a < b => \/ RefScore(results[p[a]]) > RefScore(results[p[b]])
                   \/ /\ RefScore(results[p[a]]) = RefScore(results[p[b]])
                      /\ p[a] < p[b]

Sorted == pc \in {"analytics", "done"}

C2_AllResultsInInputOrder ==
    Sorted =>
        /\ Len(results) = Len(inquiry_list)
        /\ Len(model_out) = Len(inquiry_list)
        /\ \A i \in 1..Len(inquiry_list) :
              results[i] = score_lead(inquiry_list[i], model_out[i], i - 1)

\* a returned batch of successes and a failure whose sorted order differs
\* from the input order
C2_Witness ==
    /\ pc = "done"
    /\ \E i \in 1..Len(results) : results[i].status = "failed"
    /\ Cardinality(Successful) >= 2
    /\ successful_leads # SelectSeq(results, is_success)

C7_BatchNeverAborts == pc # "raised"

\* C10: the model is called once per inquiry, in input order, each call
\* after the record of the inquiry before was appended; no call is repeated
\* and no failure ends the loop, so that every inquiry has been attempted
\* when the loop is left, and the run reaches the sort.
C10_OneCallPerInquiryInOrder ==
    /\ [](/\ Len(calls) = Len(results)
          /\ \A k \in 1..Len(calls) : calls[k] = k
          /\ pc # "scoring" => Len(calls) = Len(inquiry_list))
    /\ [][calls' # calls =>
             /\ Len(results) = Len(calls)
             /\ calls' = Append(calls, Len(results) + 1)
             /\ Len(results') = Len(calls')]_vars
    /\ <>(pc # "scoring")

\* a batch that went on after a failed first call and reached the return
C10_Witness ==
    /\ pc = "done"
    /\ Len(calls) = 3
    /\ results[1].status = "failed"
    /\ results[3].status = "success"

----------------------------------------------------------------------------
(* Properties of score_lead, on the runs over one inquiry *)

Scored == Len(results) = 1
TheInquiry == inquiry_list[1]
TheOut == model_out[1]
TheRecord == results[1]

\* the record of a failure: status failed, an error message that is not
\* empty, a null score
IsFailure(r) ==
    /\ r.status = "failed"
    /\ "error" \in DOMAIN r
    /\ \E k \in 1..Len(r.error) : r.error[k] # ""
    /\ "score" \in DOMAIN r
    /\ r.score = JNull

\* the truncated copy of the data model
RefTruncated(q) ==
    IF Len(q) <= 150 THEN q ELSE SubSeq(q, 1, 150) \o <<".", ".", ".">>

\* C4: a response that is a well-formed JSON object, whatever its strings
\* hold, gives status success with every parsed field unchanged and with a
\* timestamp and an original_inquiry.
C4_WellFormedObjectSucceeds ==
    (Scored /\ TheOut.kind = "text" /\ json_loads(TheOut.text).kind = "object")
    => LET d == json_loads(TheOut.text).dict
       IN  /\ TheRecord.status = "success"
           /\ \A f \in DOMAIN d : f \in DOMAIN TheRecord /\ TheRecord[f] = d[f]
           /\ {"timestamp", "original_inquiry"} \subseteq DOMAIN TheRecord

\* C5 as stated: a response whose text, as the model returned it, is not
\* valid JSON gives a failure record.
C5_InvalidAsReturnedFails ==
    (Scored /\ TheOut.kind = "text" /\ json_loads(TheOut.text).kind = "error")
    => IsFailure(TheRecord)

\* C5, amended: a response whose text is not valid JSON after the whitespace
\* around it is stripped and the content of its code fence is extracted
\* gives a failure record: status failed, a non-empty error, a null score.
C5_InvalidAfterCleanupFails ==
    (/\ Scored
     /\ TheOut.kind = "text"
     /\ json_loads(cleanup(strip(TheOut.text))).kind = "error")
    => IsFailure(TheRecord)

\* a fenced response whose content is no JSON was scored
C5_Witness ==
    /\ Scored
    /\ TheOut.kind = "text"
    /\ contains(TheOut.text, <<FENCE>>)
    /\ json_loads(cleanup(strip(TheOut.text))).kind = "error"
    /\ TheRecord.status = "failed"

\* C6: on a successful record original_inquiry is the text itself when it
\* has at most 150 characters, and otherwise its first 150 characters and
\* the ellipsis, 153 characters in all.
C6_TruncationLaw ==
    (Scored /\ TheRecord.status = "success")
    => /\ Len(TheInquiry) <= 150 => TheRecord.original_inquiry = TheInquiry
       /\ Len(TheInquiry) > 150 =>
             /\ TheRecord.original_inquiry
                    = SubSeq(TheInquiry, 1, 150) \o <<".", ".", ".">>
             /\ Len(TheRecord.original_inquiry) = 153

\* a successful record of an inquiry of more than 150 characters
C6_Witness ==
    /\ Scored
    /\ TheRecord.status = "success"
    /\ Len(TheInquiry) > 150

\* C8: when the model call raises, the record has status failed, a null
\* score, the error message, and the truncated copy of the inquiry: the
\* text itself when it has at most 150 characters.
C8_CallFailureKeepsTruncatedInquiry ==
    (Scored /\ TheOut.kind = "error")
    => /\ TheRecord.status = "failed"
       /\ TheRecord.score = JNull
       /\ TheRecord.error = <<TheOut.msg>>
       /\ TheRecord.original_inquiry = RefTruncated(TheInquiry)

\* the content of a response wrapped in a code fence, with the fence, its
\* language tag and the whitespace around the content taken off
FenceContent(t) ==
    LET inner == SubSeq(t, 2, Len(t) - 1)
    IN  strip(IF inner # <<>> /\ inner[1] \in {JSONTAG, WORD}
              THEN Tail(inner) ELSE inner)

\* t is one code fence: an opening fence, a content without fences, a
\* closing fence
IsFenced(t) ==
    /\ Len(t) >= 2
    /\ t[1] = FENCE
    /\ t[Len(t)] = FENCE
    /\ ~contains(SubSeq(t, 2, Len(t) - 1), <<FENCE>>)

\* C9: a response wrapped in a code fence, with the json tag, another tag
\* or none, whose content is a well-formed JSON object, gives status
\* success with the fields of that object.
C9_FencedObjectSucceeds ==
    (/\ Scored
     /\ TheOut.kind = "text"
     /\ IsFenced(strip(TheOut.text))
     /\ json_loads(FenceContent(strip(TheOut.text))).kind = "object")
    => LET d == json_loads(FenceContent(strip(TheOut.text))).dict
       IN  /\ TheRecord.status = "success"
           /\ \A f \in DOMAIN d : f \in DOMAIN TheRecord /\ TheRecord[f] = d[f]

====
